---------------------------- MODULE Spec2Model ----------------------------
(***************************************************************************)
(* Model of the Dashboard-vendor-buyer scripts:                            *)
(*   scripts/export_user_rating_profile.py  (rating transform + sink)      *)
(*   scripts/reload_table_superset.py       (same sink sequence)           *)
(*   load.py                                (table loader)                 *)
(*                                                                         *)
(* Numbers are exact rationals extended with +inf, -inf and NaN, which is  *)
(* what pandas/numpy float arithmetic produces on division by zero.        *)
(* Binary floating-point representation error is not modelled: round(2)    *)
(* is round-half-even on the exact value.                                  *)
(***************************************************************************)
EXTENDS Integers, Sequences, FiniteSets

VARIABLES
    \* --- export_user_rating_profile.py ---
    source,        \* rows of SOURCE_TABLE (sequence of session events)
    pc,            \* position of the export script
    df,            \* the dataframe read from SOURCE_TABLE
    user_metrics,  \* the per-visitor dataframe (sequence of rows)
    txn,           \* TARGET_TABLE as seen inside the open DDL transaction
    target,        \* TARGET_TABLE as committed in the database
    prior,         \* TARGET_TABLE as committed when the current run started
    \* --- load.py ---
    lpc,           \* position of main()
    tables,        \* number of tables get_all_tables returned
    ti,            \* index of the table the for loop is at
    row_count,     \* table_info['row_count'] of the current table
    all_tables_data, \* table index -> "rows" | "empty"
    analysed,      \* tables whose analysis ran to the end of the loop body
    errors,        \* per-table read failures that have happened
    summary,       \* TRUE once the SUMMARY block was printed
    result,        \* what main() returned
    \* --- application of a pure function to a drawn input ---
    fn_pc, fn_arg, fn_res

vars == <<source, pc, df, user_metrics, txn, target, prior,
          lpc, tables, ti, row_count, all_tables_data, analysed, errors,
          summary, result, fn_pc, fn_arg, fn_res>>

exportVars == <<source, pc, df, user_metrics, txn, target, prior>>
loaderVars == <<lpc, tables, ti, row_count, all_tables_data, analysed,
                errors, summary, result>>
fnVars == <<fn_pc, fn_arg, fn_res>>

-----------------------------------------------------------------------------
(* Bounds of the model *)
MaxEvents == 3
MaxSinkEvents == 3
MaxVisitors == 2
MaxVisitId == 2
MaxTime == 1
MaxExtra == 2
MaxTables == 3
MaxRows == 3
MaxVal == 3
MaxExcess == 3000

-----------------------------------------------------------------------------
(* Float arithmetic: exact rationals with inf and NaN *)

Abs(x) == IF x < 0 THEN -x ELSE x

RECURSIVE GCD(_, _)
GCD(a, b) == IF b = 0 THEN a ELSE GCD(b, a % b)

Fin(n, d) ==
    LET g == GCD(Abs(n), d)
    IN  [k |-> "fin", n |-> n \div g, d |-> d \div g]

I(n) == Fin(n, 1)
NaN == [k |-> "nan", n |-> 0, d |-> 1]
PInf == [k |-> "pinf", n |-> 0, d |-> 1]
NInf == [k |-> "ninf", n |-> 0, d |-> 1]

Sgn(a) ==
    CASE a.k = "pinf" -> 1
      [] a.k = "ninf" -> -1
      [] OTHER -> IF a.n > 0 THEN 1 ELSE IF a.n < 0 THEN -1 ELSE 0

Neg(a) ==
    CASE a.k = "fin" -> Fin(-a.n, a.d)
      [] a.k = "pinf" -> NInf
      [] a.k = "ninf" -> PInf
      [] OTHER -> NaN

Add(a, b) ==
    IF a.k = "nan" \/ b.k = "nan" THEN NaN
    ELSE IF a.k = "fin" /\ b.k = "fin" THEN Fin(a.n * b.d + b.n * a.d, a.d * b.d)
    ELSE IF a.k = "fin" THEN b
    ELSE IF b.k = "fin" THEN a
    ELSE IF a.k = b.k THEN a ELSE NaN

Sub(a, b) == Add(a, Neg(b))

Mul(a, b) ==
    IF a.k = "nan" \/ b.k = "nan" THEN NaN
    ELSE IF a.k = "fin" /\ b.k = "fin" THEN Fin(a.n * b.n, a.d * b.d)
    ELSE LET s == Sgn(a) * Sgn(b)
         IN  IF s = 0 THEN NaN ELSE IF s > 0 THEN PInf ELSE NInf

Div(a, b) ==
    IF a.k = "nan" \/ b.k = "nan" THEN NaN
    ELSE IF a.k = "fin" /\ b.k = "fin" THEN
        IF b.n = 0
        THEN (IF a.n = 0 THEN NaN ELSE IF a.n > 0 THEN PInf ELSE NInf)
        ELSE Fin(a.n * b.d * Sgn(b), a.d * Abs(b.n))
    ELSE IF a.k = "fin" THEN I(0)
    ELSE IF b.k # "fin" THEN NaN
    ELSE IF Sgn(a) * (IF b.n < 0 THEN -1 ELSE 1) > 0 THEN PInf ELSE NInf

(* a <= b; every comparison with NaN is false *)
Le(a, b) ==
    /\ a.k # "nan"
    /\ b.k # "nan"
    /\ \/ a.k = "ninf"
       \/ b.k = "pinf"
       \/ a.k = "fin" /\ b.k = "fin" /\ a.n * b.d <= b.n * a.d

Ge(a, b) == Le(b, a)
EqV(a, b) == Le(a, b) /\ Le(b, a)
Lt(a, b) == Le(a, b) /\ ~Le(b, a)

(* Series.round(2): round half to even on hundredths *)
Round2(a) ==
    IF a.k # "fin" THEN a
    ELSE LET q == (100 * a.n) \div a.d
             r == 100 * a.n - q * a.d
             up == \/ 2 * r > a.d
                   \/ 2 * r = a.d /\ q % 2 = 1
         IN  Fin(IF up THEN q + 1 ELSE q, 100)

(* Series.min() / Series.max(): NaN entries are skipped *)
SeriesMin(s) ==
    LET S == {i \in DOMAIN s : s[i].k # "nan"}
    IN  IF S = {} THEN NaN
        ELSE s[CHOOSE i \in S : \A j \in S : Le(s[i], s[j])]

SeriesMax(s) ==
    LET S == {i \in DOMAIN s : s[i].k # "nan"}
    IN  IF S = {} THEN NaN
        ELSE s[CHOOSE i \in S : \A j \in S : Le(s[j], s[i])]

-----------------------------------------------------------------------------
(* Session events and the aggregation *)

NULL == 0

Event ==
    [idvisitor : 1..MaxVisitors,
     idvisit : NULL..MaxVisitId,
     full_url : {TRUE},
     time_spent_ref_action : 0..MaxTime,
     is_bounce : 0..1,
     has_engagement : 0..1]

(* ORDER BY idvisitor, server_time *)
OrderedByVisitor(d) ==
    \A i \in 1..(Len(d) - 1) : d[i].idvisitor <= d[i + 1].idvisitor

(* a visit identifier belongs to one visitor *)
VisitOwned(d) ==
    \A i, j \in DOMAIN d :
        (d[i].idvisit # NULL /\ d[i].idvisit = d[j].idvisit)
            => d[i].idvisitor = d[j].idvisitor

SourcesOver(Ev, n) ==
    {d \in UNION {[1..m -> Ev] : m \in 1..n} :
        OrderedByVisitor(d) /\ VisitOwned(d)}

SourceTables(n) == SourcesOver(Event, n)

(* sources for the runs of the whole script, whose sink does not read the  *)
(* rows it writes: one visit per visitor, no time spent, any flags         *)
SinkEvent ==
    {[idvisitor |-> v, idvisit |-> v, full_url |-> TRUE,
      time_spent_ref_action |-> 0, is_bounce |-> b, has_engagement |-> e] :
        v \in 1..MaxVisitors, b \in 0..1, e \in 0..1}

SinkSources(n) == SourcesOver(SinkEvent, n)

RECURSIVE SortedSeq(_)
SortedSeq(S) ==
    IF S = {} THEN <<>>
    ELSE LET m == CHOOSE x \in S : \A y \in S : x <= y
         IN  <<m>> \o SortedSeq(S \ {m})

RECURSIVE SumOf(_, _)
SumOf(g, f) ==
    IF g = <<>> THEN 0 ELSE f[Head(g)] + SumOf(Tail(g), f)

(* 'count' in place of 'nunique': every row counts as a visit *)
nunique_rows(g) == Len(g)

nunique(g) == Cardinality({g[i].idvisit : i \in DOMAIN g} \ {NULL})
count(g) == Cardinality({i \in DOMAIN g : g[i].full_url})
sum_time(g) == SumOf(g, [e \in {g[i] : i \in DOMAIN g} |-> e.time_spent_ref_action])
sum_bounce(g) == SumOf(g, [e \in {g[i] : i \in DOMAIN g} |-> e.is_bounce])
sum_engagement(g) == SumOf(g, [e \in {g[i] : i \in DOMAIN g} |-> e.has_engagement])

groupby(d) ==
    LET keys == SortedSeq({d[i].idvisitor : i \in DOMAIN d})
    IN  [j \in DOMAIN keys |->
            LET v == keys[j]
                g == SelectSeq(d, LAMBDA e : e.idvisitor = v)
            IN  [idvisitor |-> v,
                 total_visits |-> nunique(g),
                 total_pageviews |-> count(g),
                 total_time_spent |-> sum_time(g),
                 bounced_sessions |-> sum_bounce(g),
                 engaged_sessions |-> sum_engagement(g)]]

Merge(r, s) == [f \in DOMAIN r \cup DOMAIN s |-> IF f \in DOMAIN s THEN s[f] ELSE r[f]]

derived(m) ==
    [j \in DOMAIN m |->
        Merge(m[j],
          [avg_pageviews_per_visit |->
               Round2(Div(I(m[j].total_pageviews), I(m[j].total_visits))),
           avg_time_per_visit |->
               Round2(Div(I(m[j].total_time_spent), I(m[j].total_visits))),
           bounce_rate |->
               Round2(Mul(Div(I(m[j].bounced_sessions), I(m[j].total_visits)), I(100))),
           engagement_rate |->
               Round2(Mul(Div(I(m[j].engaged_sessions), I(m[j].total_visits)), I(100)))])]

(* the max == min guard left out *)
normalize_unguarded(series) ==
    LET min_val == SeriesMin(series)
        max_val == SeriesMax(series)
    IN  [i \in DOMAIN series |->
            Div(Sub(series[i], min_val), Sub(max_val, min_val))]

normalize(series) ==
    LET min_val == SeriesMin(series)
        max_val == SeriesMax(series)
    IN  IF EqV(max_val, min_val)
        THEN [i \in DOMAIN series |-> Fin(1, 2)]
        ELSE [i \in DOMAIN series |->
                 Div(Sub(series[i], min_val), Sub(max_val, min_val))]

user_rating(m) ==
    LET nv == normalize([j \in DOMAIN m |-> I(m[j].total_visits)])
        np == normalize([j \in DOMAIN m |-> I(m[j].total_pageviews)])
        nt == normalize([j \in DOMAIN m |-> m[j].avg_time_per_visit])
    IN  [j \in DOMAIN m |->
            LET score_visits == Mul(nv[j], I(20))
                score_pageviews == Mul(np[j], I(20))
                score_engagement == Mul(Div(m[j].engagement_rate, I(100)), I(30))
                score_time == Mul(nt[j], I(20))
                score_bounce == Mul(Sub(I(1), Div(m[j].bounce_rate, I(100))), I(10))
            IN  Merge(m[j],
                  [user_rating |->
                      Round2(Add(Add(Add(Add(score_visits, score_pageviews),
                                         score_engagement), score_time),
                                 score_bounce))])]

(* > in place of >= *)
classify_user_exclusive(rating) ==
    IF Lt(I(80), rating) THEN "Champion"
    ELSE IF Lt(I(60), rating) THEN "Loyal"
    ELSE IF Lt(I(40), rating) THEN "Potential"
    ELSE IF Lt(I(20), rating) THEN "At Risk"
    ELSE "Lost"

classify_user(rating) ==
    IF Ge(rating, I(80)) THEN "Champion"
    ELSE IF Ge(rating, I(60)) THEN "Loyal"
    ELSE IF Ge(rating, I(40)) THEN "Potential"
    ELSE IF Ge(rating, I(20)) THEN "At Risk"
    ELSE "Lost"

user_segment(m) ==
    [j \in DOMAIN m |-> Merge(m[j], [user_segment |-> classify_user(m[j].user_rating)])]


Transform(d) == user_segment(user_rating(derived(groupby(d))))

-----------------------------------------------------------------------------
(* The export script as a state machine *)

Absent == [exists |-> FALSE, rows |-> <<>>]
EmptyTable == [exists |-> TRUE, rows |-> <<>>]

(* what an earlier run left in TARGET_TABLE: the profile of a visitor that *)
(* was in SOURCE_TABLE then                                                *)
OldSource ==
    << [idvisitor |-> 1, idvisit |-> 1, full_url |-> TRUE,
        time_spent_ref_action |-> 0, is_bounce |-> 1, has_engagement |-> 0] >>
StaleTable == [exists |-> TRUE, rows |-> Transform(OldSource)]

ExportIdle ==
    /\ source = <<>>
    /\ pc = "off"
    /\ df = <<>>
    /\ user_metrics = <<>>
    /\ txn = Absent
    /\ target = Absent
    /\ prior = Absent

ExportStart(src, tbl) ==
    /\ source = src
    /\ pc = "start"
    /\ df = <<>>
    /\ user_metrics = <<>>
    /\ txn = tbl
    /\ target = tbl
    /\ prior = tbl

ReadSql ==
    /\ pc = "start"
    /\ df' = source
    /\ pc' = "loaded"
    /\ UNCHANGED <<source, user_metrics, txn, target, prior>>
    /\ UNCHANGED <<loaderVars, fnVars>>

Aggregate ==
    /\ pc = "loaded"
    /\ user_metrics' = groupby(df)
    /\ pc' = "aggregated"
    /\ UNCHANGED <<source, df, txn, target, prior>>
    /\ UNCHANGED <<loaderVars, fnVars>>

Derive ==
    /\ pc = "aggregated"
    /\ user_metrics' = derived(user_metrics)
    /\ pc' = "derived"
    /\ UNCHANGED <<source, df, txn, target, prior>>
    /\ UNCHANGED <<loaderVars, fnVars>>

Score ==
    /\ pc = "derived"
    /\ user_metrics' = user_rating(user_metrics)
    /\ pc' = "scored"
    /\ UNCHANGED <<source, df, txn, target, prior>>
    /\ UNCHANGED <<loaderVars, fnVars>>

Classify ==
    /\ pc = "scored"
    /\ user_metrics' = user_segment(user_metrics)
    /\ pc' = "classified"
    /\ UNCHANGED <<source, df, txn, target, prior>>
    /\ UNCHANGED <<loaderVars, fnVars>>

(* DROP TABLE IF EXISTS, inside the connection's transaction *)
SinkDrop ==
    /\ pc = "classified"
    /\ txn' = Absent
    /\ pc' = "dropped"
    /\ UNCHANGED <<source, df, user_metrics, target, prior>>
    /\ UNCHANGED <<loaderVars, fnVars>>

(* CREATE TABLE; raises when the table exists, and the with block rolls back *)
SinkCreate ==
    /\ pc = "dropped"
    /\ IF txn.exists
       THEN txn' = target /\ pc' = "failed"
       ELSE txn' = EmptyTable /\ pc' = "created"
    /\ UNCHANGED <<source, df, user_metrics, target, prior>>
    /\ UNCHANGED <<loaderVars, fnVars>>

(* leaving the with block without a commit rolls the DDL back *)
SinkCommitMissing ==
    /\ pc = "created"
    /\ txn' = target
    /\ pc' = "committed"
    /\ UNCHANGED <<source, df, user_metrics, target, prior>>
    /\ UNCHANGED <<loaderVars, fnVars>>

SinkCommit ==
    /\ pc = "created"
    /\ target' = txn
    /\ pc' = "committed"
    /\ UNCHANGED <<source, df, user_metrics, txn, prior>>
    /\ UNCHANGED <<loaderVars, fnVars>>

(* to_sql(if_exists='append', method='multi'): one INSERT in its own transaction *)
ToSql ==
    /\ pc = "committed"
    /\ target' = [exists |-> TRUE, rows |-> target.rows \o user_metrics]
    /\ txn' = target'
    /\ pc' = "done"
    /\ UNCHANGED <<source, df, user_metrics, prior>>
    /\ UNCHANGED <<loaderVars, fnVars>>

(* an exception in DROP or CREATE: the with block closes the connection, *)
(* the open transaction is rolled back, the script dies                   *)
DDLFail ==
    /\ pc \in {"classified", "dropped"}
    /\ txn' = target
    /\ pc' = "failed"
    /\ UNCHANGED <<source, df, user_metrics, target, prior>>
    /\ UNCHANGED <<loaderVars, fnVars>>

(* an exception in commit: the transaction is not committed *)
CommitFail ==
    /\ pc = "created"
    /\ txn' = target
    /\ pc' = "failed"
    /\ UNCHANGED <<source, df, user_metrics, target, prior>>
    /\ UNCHANGED <<loaderVars, fnVars>>

(* an exception in to_sql: its INSERT is rolled back, the committed DDL stays *)
ToSqlFail ==
    /\ pc = "committed"
    /\ pc' = "failed"
    /\ UNCHANGED <<source, df, user_metrics, txn, target, prior>>
    /\ UNCHANGED <<loaderVars, fnVars>>

(* the script is started again on the same source *)
Rerun ==
    /\ pc \in {"done", "failed"}
    /\ pc' = "start"
    /\ df' = <<>>
    /\ user_metrics' = <<>>
    /\ txn' = target
    /\ prior' = target
    /\ UNCHANGED <<source, target>>
    /\ UNCHANGED <<loaderVars, fnVars>>

NextTransform ==
    \/ ReadSql
    \/ Aggregate
    \/ Derive
    \/ Score
    \/ Classify

NextExport ==
    \/ ReadSql
    \/ Aggregate
    \/ Derive
    \/ Score
    \/ Classify
    \/ SinkDrop
    \/ SinkCreate
    \/ SinkCommit
    \/ ToSql
    \/ DDLFail
    \/ CommitFail
    \/ ToSqlFail
    \/ Rerun

-----------------------------------------------------------------------------
(* load.py: main() as a state machine.  Tables are numbered 1..tables.     *)

(* row counts the row-count query can return, on both sides of the 10000    *)
(* threshold of main()                                                     *)
RowCounts == {0, 1, 10000, 10001}

LoaderIdle ==
    /\ lpc = "off"
    /\ tables = 0
    /\ ti = 0
    /\ row_count = 0
    /\ all_tables_data = {}
    /\ analysed = {}
    /\ errors = {}
    /\ summary = FALSE
    /\ result = "unset"

LoaderStart(n) ==
    /\ lpc = "start"
    /\ tables = n
    /\ ti = 0
    /\ row_count = 0
    /\ all_tables_data = {}
    /\ analysed = {}
    /\ errors = {}
    /\ summary = FALSE
    /\ result = "unset"

(* the end of the for body: next table, or the SUMMARY block *)
EndOfBody ==
    /\ analysed' = analysed \cup {ti}
    /\ IF ti = tables
       THEN lpc' = "summary" /\ ti' = ti
       ELSE lpc' = "info" /\ ti' = ti + 1

(* the except/finally of main(): print the error, return None, close *)
Abort(read) ==
    /\ errors' = errors \cup {[table |-> ti, read |-> read]}
    /\ lpc' = "closed"
    /\ result' = "None"

GetAllTables ==
    /\ lpc = "start"
    /\ IF tables = 0
       THEN lpc' = "closed" /\ result' = "None" /\ ti' = ti
       ELSE lpc' = "info" /\ result' = result /\ ti' = 1
    /\ UNCHANGED <<tables, row_count, all_tables_data, analysed, errors, summary>>
    /\ UNCHANGED <<exportVars, fnVars>>

(* get_table_info: the column query, then the COUNT query; neither is in a try *)
GetTableInfo ==
    /\ lpc = "info"
    /\ \E outcome \in {"ok", "columns", "count"}, rc \in RowCounts :
         IF outcome = "ok"
         THEN /\ row_count' = rc
              /\ IF rc > 0
                 THEN lpc' = "sample" /\ UNCHANGED <<ti, analysed>>
                 ELSE EndOfBody
              /\ UNCHANGED <<errors, result>>
         ELSE /\ Abort(outcome)
              /\ UNCHANGED <<row_count, ti, analysed>>
    /\ UNCHANGED <<tables, all_tables_data, summary>>
    /\ UNCHANGED <<exportVars, fnVars>>

(* load_table_data(limit=5) with its try/except removed *)
LoadSampleUncaught ==
    /\ lpc = "sample"
    /\ \E outcome \in {"rows", "empty", "error"} :
         CASE outcome = "rows" ->
                /\ lpc' = "data"
                /\ UNCHANGED <<ti, analysed, errors, result>>
           [] outcome = "empty" ->
                /\ EndOfBody
                /\ UNCHANGED <<errors, result>>
           [] outcome = "error" ->
                /\ Abort("sample")
                /\ UNCHANGED <<ti, analysed>>
    /\ UNCHANGED <<tables, row_count, all_tables_data, summary>>
    /\ UNCHANGED <<exportVars, fnVars>>

(* sample_data = load_table_data(pg_cur, table_name, limit=5): an exception *)
(* is caught inside and gives an empty DataFrame                            *)
LoadSample ==
    /\ lpc = "sample"
    /\ \E outcome \in {"rows", "empty", "error"} :
         CASE outcome = "rows" ->
                /\ lpc' = "data"
                /\ UNCHANGED <<ti, analysed, errors>>
           [] outcome = "empty" ->
                /\ EndOfBody
                /\ UNCHANGED errors
           [] outcome = "error" ->
                /\ errors' = errors \cup {[table |-> ti, read |-> "sample"]}
                /\ EndOfBody
    /\ UNCHANGED <<tables, row_count, all_tables_data, summary, result>>
    /\ UNCHANGED <<exportVars, fnVars>>

(* all_tables_data[table_name] = load_table_data(...), full or LIMIT 1000 *)
LoadData ==
    /\ lpc = "data"
    /\ \E outcome \in {"rows", "empty", "error"} :
         /\ all_tables_data' = all_tables_data \cup
              {[table |-> ti,
                data |-> IF outcome = "rows" THEN "rows" ELSE "empty",
                limit |-> IF row_count <= 10000 THEN 0 ELSE 1000]}
         /\ errors' = IF outcome = "error"
                      THEN errors \cup {[table |-> ti, read |-> "data"]}
                      ELSE errors
    /\ EndOfBody
    /\ UNCHANGED <<tables, row_count, summary, result>>
    /\ UNCHANGED <<exportVars, fnVars>>

Summary ==
    /\ lpc = "summary"
    /\ summary' = TRUE
    /\ lpc' = "prompt"
    /\ UNCHANGED <<tables, ti, row_count, all_tables_data, analysed, errors, result>>
    /\ UNCHANGED <<exportVars, fnVars>>

(* input(): y saves the non-empty frames to CSV; either way the data is returned *)
Prompt ==
    /\ lpc = "prompt"
    /\ \E save_to_files \in {"y", "n"} :
         /\ result' = "data"
         /\ lpc' = "closed"
    /\ UNCHANGED <<tables, ti, row_count, all_tables_data, analysed, errors, summary>>
    /\ UNCHANGED <<exportVars, fnVars>>

NextLoader ==
    \/ GetAllTables
    \/ GetTableInfo
    \/ LoadSample
    \/ LoadData
    \/ Summary
    \/ Prompt

-----------------------------------------------------------------------------
(* normalize and classify_user applied to a drawn input *)

FnIdle ==
    /\ fn_pc = "off"
    /\ fn_arg = <<>>
    /\ fn_res = <<>>

Columns ==
    UNION {[1..m -> {Fin(v, 2) : v \in 0..MaxVal}] : m \in 1..MaxRows}

Ratings ==
    {Fin(h, 100) : h \in (0 - MaxExcess)..(10000 + MaxExcess)} \cup {NaN, PInf, NInf}

ApplyNormalize ==
    /\ fn_pc = "column"
    /\ fn_res' = normalize(fn_arg)
    /\ fn_pc' = "normalized"
    /\ UNCHANGED fn_arg
    /\ UNCHANGED <<exportVars, loaderVars>>

ApplyClassify ==
    /\ fn_pc = "rating"
    /\ fn_res' = classify_user(fn_arg)
    /\ fn_pc' = "classified"
    /\ UNCHANGED fn_arg
    /\ UNCHANGED <<exportVars, loaderVars>>

NextNormalize ==
    \/ ApplyNormalize

NextClassify ==
    \/ ApplyClassify

-----------------------------------------------------------------------------
(* Specifications *)

(* the whole export script, run any number of times on one source *)
Init ==
    /\ \E src \in SinkSources(MaxSinkEvents), tbl \in {Absent, StaleTable} :
         ExportStart(src, tbl)
    /\ LoaderIdle
    /\ FnIdle

Spec == Init /\ [][NextExport]_vars

(* the transform alone, on every source of up to MaxEvents events *)
InitRating ==
    /\ \E src \in SourceTables(MaxEvents) : ExportStart(src, Absent)
    /\ LoaderIdle
    /\ FnIdle

SpecRating == InitRating /\ [][NextTransform]_vars

(* the same with every visit identifier present *)
AllVisitsKnown(d) == \A i \in DOMAIN d : d[i].idvisit # NULL

InitRatingKnown ==
    /\ \E src \in {d \in SourceTables(MaxEvents) : AllVisitsKnown(d)} :
         ExportStart(src, Absent)
    /\ LoaderIdle
    /\ FnIdle

SpecRatingKnown == InitRatingKnown /\ [][NextTransform]_vars

(* the end-to-end scenario: visitor 1 is A, visitor 2 is B *)
ScenarioSources ==
    {  [i \in 1..3 |->
          [idvisitor |-> 1, idvisit |-> v[i], full_url |-> TRUE,
           time_spent_ref_action |-> 10 * i,
           is_bounce |-> IF i = b THEN 1 ELSE 0,
           has_engagement |-> IF i = e THEN 1 ELSE 0]]
       \o << [idvisitor |-> 2, idvisit |-> 3, full_url |-> TRUE,
              time_spent_ref_action |-> 5, is_bounce |-> 0, has_engagement |-> 0] >>
       \o [i \in 1..x |->
          [idvisitor |-> 2, idvisit |-> 3, full_url |-> FALSE,
           time_spent_ref_action |-> 0, is_bounce |-> 0, has_engagement |-> 0]]
       : v \in {f \in [1..3 -> 1..2] : \E i, j \in 1..3 : f[i] # f[j]},
         b \in 1..3, e \in 1..3, x \in 0..MaxExtra }

InitScenario ==
    /\ \E src \in ScenarioSources : ExportStart(src, Absent)
    /\ LoaderIdle
    /\ FnIdle

SpecScenario == InitScenario /\ [][NextTransform]_vars

InitLoader ==
    /\ ExportIdle
    /\ \E n \in 0..MaxTables : LoaderStart(n)
    /\ FnIdle

SpecLoader == InitLoader /\ [][NextLoader]_vars

InitNormalize ==
    /\ ExportIdle
    /\ LoaderIdle
    /\ fn_pc = "column"
    /\ fn_arg \in Columns
    /\ fn_res = <<>>

SpecNormalize == InitNormalize /\ [][NextNormalize]_vars

InitClassify ==
    /\ ExportIdle
    /\ LoaderIdle
    /\ fn_pc = "rating"
    /\ fn_arg \in Ratings
    /\ fn_res = ""

SpecClassify == InitClassify /\ [][NextClassify]_vars

-----------------------------------------------------------------------------
(* Properties *)

AfterAggregate ==
    {"aggregated", "derived", "scored", "classified", "dropped", "created",
     "committed", "done", "failed"}
AfterDerive == AfterAggregate \ {"aggregated"}
AfterScore == AfterDerive \ {"derived"}
AfterClassify == AfterScore \ {"scored"}

InUnit(x, lo, hi) == Le(I(lo), x) /\ Le(x, I(hi))

(* C1: every profile row's user_rating lies in the closed range [0,100],   *)
(* whatever the events, their visits and their flags are.                  *)
C1_RatingInRange ==
    pc \in AfterScore =>
        \A j \in DOMAIN user_metrics : InUnit(user_metrics[j].user_rating, 0, 100)

(* C2: for every profile, bounced_sessions <= total_visits and             *)
(* engaged_sessions <= total_visits, and bounce_rate and engagement_rate   *)
(* lie in [0,100].                                                         *)
C2_RatesInRange ==
    pc \in AfterDerive =>
        \A j \in DOMAIN user_metrics :
            LET r == user_metrics[j]
            IN  /\ r.bounced_sessions <= r.total_visits
                /\ r.engaged_sessions <= r.total_visits
                /\ InUnit(r.bounce_rate, 0, 100)
                /\ InUnit(r.engagement_rate, 0, 100)

(* C3: every visitor with at least one event has total_visits >= 1, so    *)
(* none of the four ratios is a division by zero (each is a finite number),*)
(* also when all of the visitor's visit identifiers are missing.           *)
C3_TotalVisitsPositive ==
    /\ pc \in AfterAggregate =>
          \A j \in DOMAIN user_metrics : user_metrics[j].total_visits >= 1
    /\ pc \in AfterDerive =>
          \A j \in DOMAIN user_metrics :
              LET r == user_metrics[j]
              IN  /\ r.avg_pageviews_per_visit.k = "fin"
                  /\ r.avg_time_per_visit.k = "fin"
                  /\ r.bounce_rate.k = "fin"
                  /\ r.engagement_rate.k = "fin"

(* C4: a run that failed leaves the target table either exactly as it was  *)
(* when the run started or holding exactly the full new set of rows.       *)
C4_AllOrNothing ==
    pc = "failed" =>
        \/ target = prior
        \/ target.exists /\ target.rows = user_metrics /\ user_metrics # <<>>

(* C6: when a run has completed without error, the target table holds     *)
(* exactly the rows computed in this run, one per visitor of the source,   *)
(* and nothing of what it held before.                                     *)
C6_FullReplace ==
    pc = "done" =>
        /\ target.exists
        /\ target.rows = user_metrics
        /\ Len(target.rows) = Cardinality({source[i].idvisitor : i \in DOMAIN source})
        /\ \A i, j \in DOMAIN target.rows :
               target.rows[i].idvisitor = target.rows[j].idvisitor => i = j

(* a second run completed over a table the first run had filled *)
C6_Witness ==
    /\ pc = "done"
    /\ prior.exists
    /\ prior.rows # <<>>
    /\ user_metrics # <<>>

InfoErrors == {e \in errors : e.read \in {"columns", "count"}}

(* C5 as stated: whichever per-table read failed, the run still reaches    *)
(* the summary with every table analysed.                                  *)
C5_AnyReadFailureRecovered ==
    (lpc = "closed" /\ errors # {}) =>
        summary /\ analysed = 1..tables /\ result = "data"

(* C5 amended: a failure inside load_table_data (the sample load or the    *)
(* data load) is recovered locally: the table is skipped (sample) or gets  *)
(* an empty result (data load), its loop body ends normally and, absent a  *)
(* get_table_info failure, the run ends with the summary printed and every *)
(* table analysed.  A failure of the column query or the row-count query   *)
(* of get_table_info ends the run at once: main returns None, the summary  *)
(* is not printed and the table is not analysed.                           *)
C5_LoadFailuresRecovered ==
    /\ \A e \in errors \ InfoErrors :
          /\ e.table \in analysed
          /\ e.read = "data" =>
                \E d \in all_tables_data : d.table = e.table /\ d.data = "empty"
          /\ e.read = "sample" =>
                ~ \E d \in all_tables_data : d.table = e.table
    /\ (InfoErrors = {} /\ lpc = "closed" /\ tables > 0) =>
          summary /\ analysed = 1..tables /\ result = "data"
    /\ InfoErrors # {} =>
          /\ lpc = "closed"
          /\ ~summary
          /\ result = "None"
          /\ \A e \in InfoErrors : e.table \notin analysed

(* both kinds of load failure happened and the summary was still reached *)
C5_Witness ==
    /\ lpc = "closed"
    /\ summary
    /\ result = "data"
    /\ \E e \in errors : e.read = "sample"
    /\ \E e \in errors : e.read = "data"

(* C7: normalize gives 0.5 to every row of a column whose values are all   *)
(* equal (a single row included); otherwise 0 to each row holding the      *)
(* minimum, 1 to each row holding the maximum, and a value in [0,1] to     *)
(* every row.                                                              *)
C7_Normalize ==
    fn_pc = "normalized" =>
        LET s == fn_arg
            out == fn_res
            isMin(i) == \A j \in DOMAIN s : Le(s[i], s[j])
            isMax(i) == \A j \in DOMAIN s : Le(s[j], s[i])
        IN  /\ DOMAIN out = DOMAIN s
            /\ IF \A i, j \in DOMAIN s : s[i] = s[j]
               THEN \A i \in DOMAIN s : out[i] = Fin(1, 2)
               ELSE \A i \in DOMAIN s :
                       /\ isMin(i) => out[i] = I(0)
                       /\ isMax(i) => out[i] = I(1)
                       /\ InUnit(out[i], 0, 1)

(* a column with a minimum, a maximum and a row strictly between them *)
C7_Witness ==
    /\ fn_pc = "normalized"
    /\ \E i, j, l \in DOMAIN fn_res :
          /\ fn_res[i] = I(0)
          /\ fn_res[j] = I(1)
          /\ Lt(I(0), fn_res[l])
          /\ Lt(fn_res[l], I(1))

(* the rating in hundredths, for a finite rating with at most 2 decimals *)
Hundredths(r) == (r.n * 100) \div r.d

(* C8: the segment is decided by the rating alone, by the ladder with      *)
(* inclusive lower bounds 80, 60, 40, 20, and is one of the five labels.   *)
C8_Ladder ==
    fn_pc = "classified" =>
        /\ fn_res \in {"Champion", "Loyal", "Potential", "At Risk", "Lost"}
        /\ fn_arg.k = "pinf" => fn_res = "Champion"
        /\ fn_arg.k = "ninf" => fn_res = "Lost"
        /\ fn_arg.k = "fin" =>
              LET h == Hundredths(fn_arg)
              IN  /\ h >= 8000 => fn_res = "Champion"
                  /\ (6000 <= h /\ h < 8000) => fn_res = "Loyal"
                  /\ (4000 <= h /\ h < 6000) => fn_res = "Potential"
                  /\ (2000 <= h /\ h < 4000) => fn_res = "At Risk"
                  /\ h < 2000 => fn_res = "Lost"

(* the rating 20 exactly has been classified *)
C8_Witness ==
    /\ fn_pc = "classified"
    /\ fn_arg = I(20)
    /\ fn_res = "At Risk"

(* C9: in the scenario, A (visitor 1) gets total_visits 2, total_pageviews *)
(* 3, total_time_spent 60, bounce_rate 50, engagement_rate 50; B (visitor  *)
(* 2) gets total_visits 1, total_pageviews 1, bounce_rate 0; A's rating is *)
(* above B's (80 against 10) and the segments are those of the ladder      *)
(* (Champion for 80, Lost for 10).                                         *)
C9_Scenario ==
    /\ pc \in AfterAggregate => Len(user_metrics) = 2
    /\ pc \in AfterDerive =>
          LET A == user_metrics[1]
              B == user_metrics[2]
          IN  /\ A.idvisitor = 1 /\ B.idvisitor = 2
              /\ A.total_visits = 2
              /\ A.total_pageviews = 3
              /\ A.total_time_spent = 60
              /\ A.bounce_rate = I(50)
              /\ A.engagement_rate = I(50)
              /\ B.total_visits = 1
              /\ B.total_pageviews = 1
              /\ B.bounce_rate = I(0)
    /\ pc \in AfterScore =>
          /\ Lt(user_metrics[2].user_rating, user_metrics[1].user_rating)
          /\ user_metrics[1].user_rating = I(80)
          /\ user_metrics[2].user_rating = I(10)
    /\ pc \in AfterClassify =>
          /\ user_metrics[1].user_segment = "Champion"
          /\ user_metrics[2].user_segment = "Lost"

(* the scenario as written: B has two events, one of them not a pageview *)
C9_Witness ==
    /\ pc = "classified"
    /\ Len(source) = 5
    /\ source[5].idvisitor = 2
    /\ ~source[5].full_url

=============================================================================
